---- MODULE Spec2Model ----
(***************************************************************************)
(* A model of Game (src/src/game.cpp): the per-frame Update with UpdateUI, *)
(* HandleInput, UpdatePipeSpeed, Reset, InitGame and the high score file.  *)
(*                                                                         *)
(* Lengths are pixels, times are ticks (one tick is the shortest frame the *)
(* model draws), speeds are pixels per tick.  Every float of the program   *)
(* holds an integer here, except the two bounds of the random draw, which  *)
(* are kept in half pixels so that their conversion to int truncates.      *)
(* The spawn interval is a quotient and is kept as numerator/denominator.  *)
(*                                                                         *)
(* game.h and globals.h are not among the sources: the values of the       *)
(* constants they declare are chosen here (small, so that a run has few    *)
(* states), their uses are the ones of game.cpp.                           *)
(*                                                                         *)
(* Not modelled: drawing, the sound device, screenScale, the fullscreen    *)
(* toggle and playerEyesClosedTimer (which only selects the sprite).       *)
(***************************************************************************)
EXTENDS Integers, Sequences, FiniteSets, TLC

\* ---------------------------------------------------------------- constants

\* Game::Game(width, height): the screen the game is constructed with.
width == 450
height == 400

\* game.cpp:28, 57, 58
playerSize == 80
playerCollisionWidthRatioPct == 70
playerCollisionHeightRatioPct == 55

\* declared in game.h / globals.h
defaultGravity == 100
defaultJumpForce == -200
defaultPipeWidth == 100
defaultPipeGap == 300
defaultPipeSpeed == 100
defaultPipeSpawnInterval == 4
maxGapHeightDifference == 25
pipeSpeedIncrease == 50
maxSpeed == 200
gameOverDelayDuration == 3
backgroundTextureWidth == 80

\* game.cpp:128, the literal Reset stores in pipeSpawnInterval
resetPipeSpawnInterval == 2

\* fields the constructor sets once (game.cpp:29-40)
playerX == width \div 4
playerStartY == height \div 2
gravity == defaultGravity
jumpForce == defaultJumpForce
pipeWidth == defaultPipeWidth
pipeGap == defaultPipeGap
basePipeSpeed == defaultPipeSpeed
initialPipeDistance == basePipeSpeed * defaultPipeSpawnInterval

\* ------------------------------------------------------------------- bounds

\* Under Spec, which draws every input on every build, a run has at most
\* MaxRunFrames running frames; under SpecPlay, which draws the inputs of
\* play in a focused window of the desktop build, running frames are taken
\* while score < MaxScorePlay; under SpecInput, which also records the input
\* of each frame and takes frames with dt = 0, a run has at most
\* MaxInputFrames running frames.
MaxRunFrames == 2
MaxScorePlay == 4
MaxInputFrames == 2
\* The largest high score the file holds at startup.
MaxStoredHighScore == 1

\* The lengths of a frame, in ticks; under SpecInput every frame with dt > 0
\* has the same length.
DtSet == {1, 2}
DtInput == {2}

\* The keys and gestures of one frame.  ENTER is IsKeyPressed(KEY_ENTER),
\* ENTER_HELD is IsKeyDown(KEY_ENTER) without the press, FLAP is any of
\* SPACE, UP, W, TAP is a tap below the title area, TAP_TITLE one inside it,
\* CLOSE is WindowShouldClose().
KeyCombos ==
    { {}, {"ESC"}, {"ENTER"}, {"ENTER_HELD"}, {"Y"}, {"N"}, {"P"}, {"M"},
      {"FLAP"}, {"TAP"}, {"TAP_TITLE"}, {"CLOSE"},
      {"ESC", "Y"}, {"ESC", "ENTER"}, {"FLAP", "M"}, {"CLOSE", "N"} }

\* The keys and gestures of play.
PlayKeys == { {}, {"FLAP"}, {"ENTER"} }

VARIABLES
    game,                 \* the fields of the Game object
    exitWindowRequested,  \* globals.h
    exitWindow,           \* globals.h
    highscoreFile,        \* highscore.txt
    webBuild,             \* built with EMSCRIPTEN_BUILD / __EMSCRIPTEN__
    isMobile,             \* Game::isMobile
    hist,                 \* history of the run and of the last frame
    input                 \* under SpecInput, the input of the last Update call

vars == <<game, exitWindowRequested, exitWindow, highscoreFile, webBuild, isMobile, hist, input>>

\* ------------------------------------------------------------ input queries

IsKeyPressed(keys, k) == k \in keys
IsKeyDownEnter(keys) == "ENTER" \in keys \/ "ENTER_HELD" \in keys
IsGestureTap(keys) == "TAP" \in keys \/ "TAP_TITLE" \in keys
TapInTitleArea(keys) == "TAP_TITLE" \in keys
FlapPressed(keys) == "FLAP" \in keys \/ (isMobile /\ IsGestureTap(keys))

\* ---------------------------------------------------------- high score file

RECURSIVE to_string(_)
to_string(n) == IF n < 10 THEN <<n>> ELSE Append(to_string(n \div 10), n % 10)

RECURSIVE ParseDigits(_)
ParseDigits(text) ==
    IF text = <<>> THEN 0
    ELSE 10 * ParseDigits(SubSeq(text, 1, Len(text) - 1)) + text[Len(text)]

NoFile == [open |-> FALSE, text |-> <<>>]

\* file >> highScore when the file opens, 0 otherwise; 0 on the web build.
LoadHighScore(file) ==
    IF webBuild THEN 0
    ELSE IF file.open THEN ParseDigits(file.text) ELSE 0

\* A save that leaves the file as it is.
SaveHighScoreSkipped(file, hs) == file

\* file << highScore; nothing on the web build.
SaveHighScore(file, hs) ==
    IF webBuild THEN file
    ELSE [open |-> TRUE, text |-> to_string(hs)]

\* ------------------------------------------------------- InitGame and Reset

\* Game::InitGame (game.cpp:108-116); screenScale is not modelled.
InitGame(g) ==
    [g EXCEPT !.isInExitMenu = FALSE,
              !.paused = FALSE,
              !.lostWindowFocus = FALSE,
              !.gameOver = FALSE]

\* Reset that restarts the music whatever musicManuallyDisabled is.
ResetRestartingMusic(g) ==
    LET g1 == InitGame(g)
    IN  [g1 EXCEPT !.playerY = playerStartY,
                   !.playerVelocity = 0,
                   !.pipes = <<>>,
                   !.pipeSpawnTimer = 0,
                   !.pipeSpawnInterval = [n |-> resetPipeSpawnInterval, d |-> 1],
                   !.score = 0,
                   !.pipeSpeed = basePipeSpeed,
                   !.musicPlaying = TRUE]

\* Reset without the line that restores the speed.
ResetKeepingSpeed(g) ==
    LET g1 == InitGame(g)
        g2 == [g1 EXCEPT !.playerY = playerStartY,
                         !.playerVelocity = 0,
                         !.pipes = <<>>,
                         !.pipeSpawnTimer = 0,
                         !.pipeSpawnInterval = [n |-> resetPipeSpawnInterval, d |-> 1],
                         !.score = 0]
    IN  IF ~g2.musicManuallyDisabled
        THEN [g2 EXCEPT !.musicPlaying = TRUE]
        ELSE g2

\* Game::Reset (game.cpp:118-139).
Reset(g) ==
    LET g1 == InitGame(g)
        g2 == [g1 EXCEPT !.playerY = playerStartY,
                         !.playerVelocity = 0,
                         !.pipes = <<>>,
                         !.pipeSpawnTimer = 0,
                         !.pipeSpawnInterval = [n |-> resetPipeSpawnInterval, d |-> 1],
                         !.score = 0,
                         !.pipeSpeed = basePipeSpeed]
    IN  IF ~g2.musicManuallyDisabled
        THEN [g2 EXCEPT !.musicPlaying = TRUE]
        ELSE g2

\* ------------------------------------------------------------------ UpdateUI

\* The exit request without the test of exitWindowRequested.
ExitRequestedAgain(keys, req) ==
    ~webBuild /\ ("CLOSE" \in keys \/ "ESC" \in keys)

\* game.cpp:321: the exit request, compiled on the desktop build only.
ExitRequested(keys, req) ==
    ~webBuild /\ ("CLOSE" \in keys \/ ("ESC" \in keys /\ req = FALSE))

\* game.cpp:343-358: leaving the first-start screen.
StartGame(g, keys) ==
    IF g.firstTimeGameStart /\ (IF isMobile THEN IsGestureTap(keys) ELSE IsKeyDownEnter(keys))
    THEN [g EXCEPT !.firstTimeGameStart = FALSE, !.musicPlaying = TRUE]
    ELSE g

\* game.cpp:382-389: the pause key.
PauseKey(keys) ==
    IF webBuild THEN "P" \in keys \/ "ESC" \in keys ELSE "P" \in keys

\* The pause key without the test of gameOver.
PauseToggleWhenOver(g, req, keys) ==
    IF req = FALSE /\ g.lostWindowFocus = FALSE /\ PauseKey(keys)
    THEN [g EXCEPT !.paused = ~g.paused]
    ELSE g

\* game.cpp:382-389: the toggle.
PauseToggle(g, req, keys) ==
    IF req = FALSE /\ g.lostWindowFocus = FALSE /\ g.gameOver = FALSE /\ PauseKey(keys)
    THEN [g EXCEPT !.paused = ~g.paused]
    ELSE g

\* Game::UpdateUI (game.cpp:318-418): the game, the two globals and the
\* returned skipFrame.
UpdateUI(g, req, ex, keys, focused) ==
    IF ExitRequested(keys, req)
    THEN [g |-> [g EXCEPT !.isInExitMenu = TRUE], req |-> TRUE, ex |-> ex, skip |-> FALSE]
    ELSE
      LET g1 == StartGame(g, keys)
          confirm == req /\ "Y" \in keys
          deny == req /\ ~("Y" \in keys) /\ ("N" \in keys \/ "ESC" \in keys)
          ex1 == ex \/ confirm
          req1 == req /\ ~deny
          g2 == IF deny THEN [g1 EXCEPT !.isInExitMenu = FALSE] ELSE g1
          g3 == [g2 EXCEPT !.lostWindowFocus = ~focused]
          g4 == PauseToggle(g3, req1, keys)
          mobileUI == isMobile /\ ~g4.firstTimeGameStart /\ ~g4.gameOver /\ ~req1
          tapPause == mobileUI /\ ~g4.paused /\ IsGestureTap(keys) /\ TapInTitleArea(keys)
          tapResume == mobileUI /\ g4.paused /\ IsGestureTap(keys)
          g5 == IF tapPause THEN [g4 EXCEPT !.paused = TRUE]
                ELSE IF tapResume THEN [g4 EXCEPT !.paused = FALSE]
                ELSE g4
      IN  [g |-> g5, req |-> req1, ex |-> ex1, skip |-> tapPause \/ tapResume]

\* ---------------------------------------------------------------- the frame

\* The running condition without the test of paused.
RunningWhenPaused(g) ==
    g.firstTimeGameStart = FALSE /\ g.lostWindowFocus = FALSE
    /\ g.isInExitMenu = FALSE /\ g.gameOver = FALSE

\* game.cpp:154
Running(g) ==
    g.firstTimeGameStart = FALSE /\ g.paused = FALSE /\ g.lostWindowFocus = FALSE
    /\ g.isInExitMenu = FALSE /\ g.gameOver = FALSE

\* game.cpp:157-161: one subtraction of the texture width, not a modulo.
ScrollBackground(g, dt) ==
    LET x == g.backgroundScrollX + g.backgroundScrollSpeed * dt
    IN  [g EXCEPT !.backgroundScrollX =
            IF x >= backgroundTextureWidth THEN x - backgroundTextureWidth ELSE x]

\* HandleInput with a flap that adds the impulse to the velocity.
HandleInputAdding(g, keys) ==
    LET g1 == IF ~g.paused /\ ~g.gameOver /\ ~g.firstTimeGameStart
                 /\ ~g.isInExitMenu /\ ~g.lostWindowFocus /\ FlapPressed(keys)
              THEN [g EXCEPT !.playerVelocity = g.playerVelocity + jumpForce]
              ELSE g
    IN  IF "M" \in keys
        THEN IF g1.musicPlaying
             THEN [g1 EXCEPT !.musicPlaying = FALSE, !.musicManuallyDisabled = TRUE]
             ELSE [g1 EXCEPT !.musicPlaying = TRUE, !.musicManuallyDisabled = FALSE]
        ELSE g1

\* Game::HandleInput (game.cpp:290-316).
HandleInput(g, keys) ==
    LET g1 == IF ~g.paused /\ ~g.gameOver /\ ~g.firstTimeGameStart
                 /\ ~g.isInExitMenu /\ ~g.lostWindowFocus /\ FlapPressed(keys)
              THEN [g EXCEPT !.playerVelocity = jumpForce]
              ELSE g
    IN  IF "M" \in keys
        THEN IF g1.musicPlaying
             THEN [g1 EXCEPT !.musicPlaying = FALSE, !.musicManuallyDisabled = TRUE]
             ELSE [g1 EXCEPT !.musicPlaying = TRUE, !.musicManuallyDisabled = FALSE]
        ELSE g1

\* UpdatePipeSpeed without the clamp to maxSpeed.
UpdatePipeSpeedUnclamped(g, dt) ==
    LET s == g.pipeSpeed + pipeSpeedIncrease * dt
    IN  [g EXCEPT !.pipeSpeed = s,
                  !.pipeSpawnInterval = [n |-> initialPipeDistance, d |-> s],
                  !.backgroundScrollSpeed = (s * 2) \div 10]

\* Game::UpdatePipeSpeed (game.cpp:706-713).
UpdatePipeSpeed(g, dt) ==
    LET s == g.pipeSpeed + pipeSpeedIncrease * dt
        s1 == IF s > maxSpeed THEN maxSpeed ELSE s
    IN  [g EXCEPT !.pipeSpeed = s1,
                  !.pipeSpawnInterval = [n |-> initialPipeDistance, d |-> s1],
                  !.backgroundScrollSpeed = (s1 * 2) \div 10]

\* game.cpp:174-175
Physics(g, dt) ==
    LET v == g.playerVelocity + gravity * dt
    IN  [g EXCEPT !.playerVelocity = v, !.playerY = g.playerY + v * dt]

\* game.cpp:178-179
collisionBoxWidth == (playerSize * playerCollisionWidthRatioPct) \div 100
collisionBoxHeight == (playerSize * playerCollisionHeightRatioPct) \div 100

\* game.cpp:183-193 and 242-252: what a collision does to the game and the file.
Collide(st) ==
    LET g == [st.g EXCEPT !.gameOver = TRUE, !.gameOverDelayTimer = gameOverDelayDuration]
    IN  IF g.score > g.highScore
        THEN [g |-> [g EXCEPT !.highScore = g.score],
              file |-> SaveHighScore(st.file, g.score),
              hits |-> st.hits + 1]
        ELSE [g |-> g, file |-> st.file, hits |-> st.hits + 1]

\* game.cpp:182
HitsBoundary(g) ==
    2 * g.playerY - collisionBoxHeight < 0
    \/ 2 * g.playerY + collisionBoxHeight > 2 * height

BoundaryCheck(st) == IF HitsBoundary(st.g) THEN Collide(st) ELSE st

\* -------------------------------------------------------------- the spawn

\* game.cpp:197-198: the timer after += dt reaches the interval n/d.
SpawnDue(g, dt) ==
    (g.pipeSpawnTimer + dt) * g.pipeSpawnInterval.d >= g.pipeSpawnInterval.n

\* The lower bound without the clamp to the screen.
minGapCenter2Unclamped(prevGapCenter) == 2 * (prevGapCenter - maxGapHeightDifference)

\* game.cpp:211, in half pixels: MAX(pipeGap/2, prevGapCenter - maxGapHeightDifference).
minGapCenter2(prevGapCenter) ==
    LET a == pipeGap
        b == 2 * (prevGapCenter - maxGapHeightDifference)
    IN  IF a > b THEN a ELSE b

\* The upper bound with the clamp to the screen only.
maxGapCenter2ScreenOnly(prevGapCenter) == 2 * height - pipeGap

\* game.cpp:212, in half pixels: MIN(height - pipeGap/2, prevGapCenter + maxGapHeightDifference).
maxGapCenter2(prevGapCenter) ==
    LET a == 2 * height - pipeGap
        b == 2 * (prevGapCenter + maxGapHeightDifference)
    IN  IF a < b THEN a ELSE b

\* The conversion of a float argument (given in half pixels) to the int
\* parameter of GetRandomValue: truncation towards zero.
FloatToInt(x2) == IF x2 >= 0 THEN x2 \div 2 ELSE -((-x2) \div 2)

\* raylib's GetRandomValue(min, max): a value of min..max, the two swapped
\* when min > max.  The model draws the two ends of the range.
GetRandomValue(min, max) ==
    IF min > max THEN {max, min} ELSE {min, max}

\* game.cpp:202-216: the values targetGapCenter can get.
TargetGapCenters(pipes) ==
    IF pipes = <<>>
    THEN {height \div 2}
    ELSE LET prevGapCenter == pipes[Len(pipes)].gapCenter
         IN  GetRandomValue(FloatToInt(minGapCenter2(prevGapCenter)),
                            FloatToInt(maxGapCenter2(prevGapCenter)))

\* The spawn with the new obstacle put at the front of the sequence.
SpawnAtFront(g, dt, targetGapCenter) ==
    IF SpawnDue(g, dt)
    THEN [g EXCEPT !.pipeSpawnTimer = 0,
                   !.pipes = <<[x |-> width, gapCenter |-> targetGapCenter, scored |-> FALSE]>>
                             \o g.pipes]
    ELSE [g EXCEPT !.pipeSpawnTimer = g.pipeSpawnTimer + dt]

\* game.cpp:197-219, with the drawn gap center.
Spawn(g, dt, targetGapCenter) ==
    IF SpawnDue(g, dt)
    THEN [g EXCEPT !.pipeSpawnTimer = 0,
                   !.pipes = Append(g.pipes,
                       [x |-> width, gapCenter |-> targetGapCenter, scored |-> FALSE])]
    ELSE [g EXCEPT !.pipeSpawnTimer = g.pipeSpawnTimer + dt]

\* ----------------------------------------------------------- the pipe loop

\* The scoring test without the scored flag.
PassedIgnoringScored(pipe) == playerX > pipe.x + pipeWidth

\* game.cpp:225
Passed(pipe) == playerX > pipe.x + pipeWidth /\ ~pipe.scored

\* The horizontal gate left out: every obstacle counts as overlapped.
OverlapsXAlways(pipe) == TRUE

\* game.cpp:238, in half pixels
OverlapsX(pipe) ==
    2 * playerX + collisionBoxWidth > 2 * pipe.x
    /\ 2 * playerX - collisionBoxWidth < 2 * (pipe.x + pipeWidth)

\* game.cpp:240-241, in half pixels
OutsideGap(g, pipe) ==
    2 * g.playerY - collisionBoxHeight < 2 * pipe.gapCenter - pipeGap
    \/ 2 * g.playerY + collisionBoxHeight > 2 * pipe.gapCenter + pipeGap

\* game.cpp:226-232
ScorePipe(st, i) ==
    LET g == [st.g EXCEPT !.score = st.g.score + 1, !.pipes[i].scored = TRUE]
    IN  IF g.score > g.highScore
        THEN [st EXCEPT !.g = [g EXCEPT !.highScore = g.score],
                        !.file = SaveHighScore(st.file, g.score)]
        ELSE [st EXCEPT !.g = g]

\* The body of the loop without the test of gameOver before the collision test.
PipeBodyUnguarded(st, i, dt) ==
    LET s1 == [st EXCEPT !.g.pipes[i].x = st.g.pipes[i].x - st.g.pipeSpeed * dt]
        s2 == IF Passed(s1.g.pipes[i]) THEN ScorePipe(s1, i) ELSE s1
    IN  IF OverlapsX(s2.g.pipes[i]) /\ OutsideGap(s2.g, s2.g.pipes[i])
        THEN Collide(s2)
        ELSE s2

\* game.cpp:223-255: the body of the loop for pipe i.
PipeBody(st, i, dt) ==
    LET s1 == [st EXCEPT !.g.pipes[i].x = st.g.pipes[i].x - st.g.pipeSpeed * dt]
        s2 == IF Passed(s1.g.pipes[i]) THEN ScorePipe(s1, i) ELSE s1
    IN  IF ~s2.g.gameOver /\ OverlapsX(s2.g.pipes[i]) /\ OutsideGap(s2.g, s2.g.pipes[i])
        THEN Collide(s2)
        ELSE s2

RECURSIVE PipeLoop(_, _, _)
PipeLoop(st, i, dt) ==
    IF i > Len(st.g.pipes) THEN st ELSE PipeLoop(PipeBody(st, i, dt), i + 1, dt)

\* The disposal test on the left edge of the obstacle.
OffScreenAtEdge(pipe) == pipe.x < 0

\* game.cpp:260
OffScreen(pipe) == pipe.x < -pipeWidth

\* game.cpp:259-261: erase(remove_if(...)) keeps the others in order.
ErasePipes(pipes) == SelectSeq(pipes, LAMBDA pipe : ~OffScreen(pipe))

\* game.cpp:167-256: the running block up to the end of the pipe loop, with
\* the drawn gap center.
RunningLoop(st, dt, keys, targetGapCenter) ==
    LET g1 == HandleInput(st.g, keys)
        g2 == UpdatePipeSpeed(g1, dt)
        g3 == Physics(g2, dt)
        s4 == BoundaryCheck([st EXCEPT !.g = g3])
        s5 == [s4 EXCEPT !.g = Spawn(s4.g, dt, targetGapCenter)]
    IN  PipeLoop(s5, 1, dt)

\* game.cpp:167-267: the running block.
RunningBlock(st, dt, keys, targetGapCenter) ==
    LET s6 == RunningLoop(st, dt, keys, targetGapCenter)
    IN  [s6 EXCEPT !.g.pipes = ErasePipes(s6.g.pipes)]

\* The countdown held while the window has no focus.
DelayTickWhenFocused(g, dt) ==
    IF g.gameOverDelayTimer > 0 /\ ~g.lostWindowFocus
    THEN LET t == g.gameOverDelayTimer - dt
         IN  [g EXCEPT !.gameOverDelayTimer = IF t < 0 THEN 0 ELSE t]
    ELSE g

\* game.cpp:272-275
DelayTick(g, dt) ==
    IF g.gameOverDelayTimer > 0
    THEN LET t == g.gameOverDelayTimer - dt
         IN  [g EXCEPT !.gameOverDelayTimer = IF t < 0 THEN 0 ELSE t]
    ELSE g

\* game.cpp:279-285
RestartInput(keys) ==
    IF isMobile THEN IsGestureTap(keys) ELSE "ENTER" \in keys

\* The restart without the test of the delay timer.
RestartDueAtOnce(g, keys) == RestartInput(keys)

\* game.cpp:278-286: the restart is taken.
RestartDue(g, keys) == g.gameOverDelayTimer <= 0 /\ RestartInput(keys)

\* game.cpp:270-287
GameOverBlock(g, dt, keys) ==
    IF g.gameOver
    THEN LET g1 == DelayTick(g, dt)
         IN  IF RestartDue(g1, keys) THEN Reset(g1) ELSE g1
    ELSE g

\* ------------------------------------------------------------------- Update

\* The spawn test of this frame is made with the interval UpdatePipeSpeed
\* has just stored (game.cpp:171, 198).
WillSpawn(g, dt) == SpawnDue(UpdatePipeSpeed(g, dt), dt)

Min(a, b) == IF a < b THEN a ELSE b
Max(a, b) == IF a > b THEN a ELSE b

\* The history kept beside the program's state: what the last frame did, and
\* of the current run what the obstacle list no longer shows.
\*   blocked      a mode flag was set when UpdateUI returned
\*   running      the frame ran the simulation (the local of game.cpp:154)
\*   dt           the length of the frame when it ran the simulation, else 0
\*   flapInput    the frame ran the simulation or called Reset, with the
\*                flap input among its input
\*   reset        the frame called Reset; restartGiven: with the restart
\*                action of the platform among its input
\*   hits         the hit cues of the frame
\*   frames       the running frames of the run, up to MaxRunFrames
\*   hitClock     the ticks of the processed frames since the collision,
\*                the collision frame and the last frame included (up to
\*                gameOverDelayDuration); 0 when the game was not over
\*   disposed     the obstacles the frame erased
\*   goneScored   the scored obstacles of the run that were disposed
\*   gaps         the gap centers of the last two obstacles spawned in the
\*                run, the later one last; prevPresent: the list was not
\*                empty at the last spawn
\*   loaded       the high score read at startup; maxScore: the largest
\*                score reached since
\* The last two elements of a sequence, or the sequence when it is shorter.
LastTwo(seq) == IF Len(seq) <= 2 THEN seq ELSE SubSeq(seq, Len(seq) - 1, Len(seq))

NextHist(h, ui, keys, running, spawns, gc, loop, resets, dt) ==
    LET collided == running /\ loop.g.gameOver
        gone == SelectSeq(loop.g.pipes, OffScreen)
        goneScoredNow == Len(SelectSeq(gone, LAMBDA pipe : pipe.scored))
    IN  [kind |-> "frame",
         skipped |-> ui.skip,
         blocked |-> ui.g.firstTimeGameStart \/ ui.g.paused \/ ui.g.lostWindowFocus
                     \/ ui.g.isInExitMenu \/ ui.g.gameOver,
         running |-> running,
         dt |-> IF running THEN dt ELSE 0,
         flapInput |-> (running \/ resets) /\ FlapPressed(keys),
         reset |-> resets,
         restartGiven |-> resets /\ (IF isMobile THEN IsGestureTap(keys) ELSE "ENTER" \in keys),
         hits |-> loop.hits,
         frames |-> IF resets THEN 0
                    ELSE IF running THEN Min(h.frames + 1, MaxRunFrames)
                    ELSE h.frames,
         hitClock |-> IF collided THEN Min(dt, gameOverDelayDuration)
                      ELSE IF ui.skip THEN h.hitClock
                      ELSE IF ui.g.gameOver THEN Min(h.hitClock + dt, gameOverDelayDuration)
                      ELSE 0,
         disposed |-> IF running THEN Len(gone) ELSE 0,
         goneScored |-> IF resets THEN 0
                        ELSE IF running THEN h.goneScored + goneScoredNow
                        ELSE h.goneScored,
         gaps |-> IF resets THEN <<>>
                  ELSE IF spawns THEN LastTwo(Append(h.gaps, gc))
                  ELSE h.gaps,
         prevPresent |-> IF resets THEN FALSE
                         ELSE IF spawns THEN ui.g.pipes # <<>>
                         ELSE h.prevPresent,
         loaded |-> h.loaded,
         maxScore |-> Max(h.maxScore, loop.g.score)]

\* Game::Update(dt) for dt > 0 (game.cpp:141-288), with the input of the
\* frame: the keys and gestures, and IsWindowFocused().  The main loop ends
\* once exitWindow is set.
Update(dt, keys, focused) ==
    /\ exitWindow = FALSE
    /\ LET ui == UpdateUI(game, exitWindowRequested, exitWindow, keys, focused)
           running == ~ui.skip /\ Running(ui.g)
           spawns == running /\ WillSpawn(ui.g, dt)
       IN  \E gc \in (IF spawns THEN TargetGapCenters(ui.g.pipes) ELSE {0}) :
                LET st0 == [g |-> ui.g, file |-> highscoreFile, hits |-> 0]
                    st1 == IF running THEN [st0 EXCEPT !.g = ScrollBackground(ui.g, dt)] ELSE st0
                    loop == IF running THEN RunningLoop(st1, dt, keys, gc) ELSE st1
                    st2 == IF running THEN RunningBlock(st1, dt, keys, gc) ELSE st1
                    resets == ~ui.skip /\ st2.g.gameOver
                              /\ RestartDue(DelayTick(st2.g, dt), keys)
                    g3 == IF ui.skip THEN ui.g ELSE GameOverBlock(st2.g, dt, keys)
                IN  /\ game' = g3
                    /\ exitWindowRequested' = ui.req
                    /\ exitWindow' = ui.ex
                    /\ highscoreFile' = st2.file
                    /\ hist' = NextHist(hist, ui, keys, running, spawns, gc, loop, resets, dt)
                    /\ UNCHANGED <<webBuild, isMobile>>

\* Update(0) without the early return.
UpdateZeroPolling(keys, focused) == Update(0, keys, focused)

\* Game::Update(0) (game.cpp:143-146): the call returns at once, whatever
\* the keys and the focus are.
UpdateZero(keys, focused) ==
    /\ exitWindow = FALSE
    /\ UNCHANGED <<game, exitWindowRequested, exitWindow, highscoreFile,
                   webBuild, isMobile, hist>>

\* The frame with this input is a running one (game.cpp:149-154).
FrameRuns(keys, focused) ==
    LET ui == UpdateUI(game, exitWindowRequested, exitWindow, keys, focused)
    IN  ~ui.skip /\ Running(ui.g)

StoredFiles == {NoFile, [open |-> TRUE, text |-> to_string(MaxStoredHighScore)]}

\* Before the first call of Update no input has been read.
NoInput == [dt |-> 0, keys |-> {}, focused |-> TRUE]

\* The fields after Game::Game (game.cpp:20-86), given highscore.txt.
NewGame(file) ==
    [firstTimeGameStart |-> TRUE,
     isInExitMenu |-> FALSE,
     paused |-> FALSE,
     lostWindowFocus |-> FALSE,
     gameOver |-> FALSE,
     playerY |-> playerStartY,
     playerVelocity |-> 0,
     pipes |-> <<>>,
     pipeSpeed |-> defaultPipeSpeed,
     pipeSpawnInterval |-> [n |-> defaultPipeSpawnInterval, d |-> 1],
     pipeSpawnTimer |-> defaultPipeSpawnInterval,
     score |-> 0,
     highScore |-> LoadHighScore(file),
     musicPlaying |-> FALSE,
     musicManuallyDisabled |-> FALSE,
     backgroundScrollX |-> 0,
     backgroundScrollSpeed |-> (basePipeSpeed * 2) \div 10,
     gameOverDelayTimer |-> 0]

NewHist(file) ==
    [kind |-> "init", skipped |-> FALSE, blocked |-> TRUE, running |-> FALSE,
     dt |-> 0, flapInput |-> FALSE,
     reset |-> FALSE, restartGiven |-> FALSE,
     hits |-> 0, frames |-> 0, hitClock |-> 0, disposed |-> 0, goneScored |-> 0,
     gaps |-> <<>>, prevPresent |-> FALSE,
     loaded |-> LoadHighScore(file), maxScore |-> 0]

\* The program started on each build, highscore.txt absent.
Init ==
    /\ webBuild \in BOOLEAN
    /\ isMobile \in (IF webBuild THEN BOOLEAN ELSE {FALSE})
    /\ highscoreFile = NoFile
    /\ exitWindowRequested = FALSE
    /\ exitWindow = FALSE
    /\ game = NewGame(highscoreFile)
    /\ hist = NewHist(highscoreFile)
    /\ input = NoInput

\* The program started on the desktop build, highscore.txt absent or left by
\* an earlier session.
InitPlay ==
    /\ webBuild = FALSE
    /\ isMobile = FALSE
    /\ highscoreFile \in StoredFiles
    /\ exitWindowRequested = FALSE
    /\ exitWindow = FALSE
    /\ game = NewGame(highscoreFile)
    /\ hist = NewHist(highscoreFile)
    /\ input = NoInput

Next ==
    \E dt \in DtSet, keys \in KeyCombos, focused \in BOOLEAN :
        /\ FrameRuns(keys, focused) => hist.frames < MaxRunFrames
        /\ Update(dt, keys, focused)
        /\ UNCHANGED input

NextPlay ==
    \E dt \in DtSet, keys \in PlayKeys :
        /\ FrameRuns(keys, TRUE) => game.score < MaxScorePlay
        /\ Update(dt, keys, TRUE)
        /\ UNCHANGED input

\* A frame with dt > 0 whose input is recorded.
FrameInput ==
    \E dt \in DtInput, keys \in KeyCombos, focused \in BOOLEAN :
        /\ FrameRuns(keys, focused) => hist.frames < MaxInputFrames
        /\ Update(dt, keys, focused)
        /\ input' = [dt |-> dt, keys |-> keys, focused |-> focused]

\* A call with dt = 0 whose input is recorded.
ZeroInput ==
    \E keys \in KeyCombos, focused \in BOOLEAN :
        /\ UpdateZero(keys, focused)
        /\ input' = [dt |-> 0, keys |-> keys, focused |-> focused]

NextInput == FrameInput \/ ZeroInput

Spec == Init /\ [][Next]_vars

SpecPlay == InitPlay /\ [][NextPlay]_vars

SpecInput == Init /\ [][NextInput]_vars

\* The inputs that matter after a collision: the restart action of either
\* platform, the exit request and its confirmation, or none.
DelayKeys == { {}, {"ENTER"}, {"TAP"}, {"ESC"}, {"Y"} }

\* A frame with dt > 0 whose input is recorded, with the inputs of DelayKeys;
\* the frames that run the simulation have the lengths of DtInput.
FrameDelay ==
    \E dt \in DtSet, keys \in DelayKeys, focused \in BOOLEAN :
        /\ FrameRuns(keys, focused) => (dt \in DtInput /\ hist.frames < MaxInputFrames)
        /\ Update(dt, keys, focused)
        /\ input' = [dt |-> dt, keys |-> keys, focused |-> focused]

\* Frames with dt > 0 keep being processed while the main loop runs.
SpecDelay == Init /\ [][FrameDelay]_vars /\ WF_vars(FrameDelay)

\* ------------------------------------------------------------- properties

\* The simulation state: what physics, spawning, collision and scoring write.
SimState(g) ==
    <<g.playerY, g.playerVelocity, g.pipes, g.score, g.pipeSpeed,
      g.pipeSpawnTimer, g.pipeSpawnInterval, g.backgroundScrollX>>

\* C1: a frame with dt > 0 in which one of first-start, paused, focus-lost,
\* exit-menu or game-over is set once UpdateUI has returned leaves the player's
\* y and velocity, the obstacles, score, pipeSpeed, the spawn timer, the spawn
\* interval and the background offset as they were, unless the frame calls
\* Reset.
C1_BlockedFrameFreezes ==
    [][(hist'.kind = "frame" /\ hist'.blocked /\ ~hist'.reset)
          => SimState(game') = SimState(game)]_vars

\* A frame of a paused game with an obstacle on screen.
C1_PausedMidRun ==
    hist.kind = "frame" /\ hist.blocked /\ ~hist.reset /\ ~hist.skipped
    /\ game.paused /\ game.pipes # <<>>

\* The mode flags that are set.
ModeFlagsSet ==
    {f \in {"first-start", "paused", "focus-lost", "exit-confirm-pending", "game-over"} :
        \/ f = "first-start" /\ game.firstTimeGameStart
        \/ f = "paused" /\ game.paused
        \/ f = "focus-lost" /\ game.lostWindowFocus
        \/ f = "exit-confirm-pending" /\ exitWindowRequested
        \/ f = "game-over" /\ game.gameOver}

\* C2 as stated: at a frame boundary at most one mode flag is set.
C2_AtMostOneModeFlag == Cardinality(ModeFlagsSet) <= 1

\* C2: at a frame boundary game-over is never set together with first-start
\* or with paused; every other pair of mode flags can be set together.
C2_GameOverExcludesFirstStartAndPaused ==
    game.gameOver => ~game.firstTimeGameStart /\ ~game.paused

\* Game over with the focus lost and the exit confirmation pending.
C2_GameOverWithOtherFlags ==
    game.gameOver /\ game.lostWindowFocus /\ exitWindowRequested

\* C3 as stated: a frame in which exitWindowRequested is set when the running
\* condition is evaluated does not run the simulation.
C3_ExitPendingFreezes ==
    (hist.kind = "frame" /\ exitWindowRequested) => ~hist.running

\* C4: a frame calls Reset only when the game is over, the restart action of
\* the platform (tap on mobile, Enter elsewhere) is among its input, and the
\* processed frames from the collision frame to this one, both included,
\* lasted gameOverDelayDuration or more together.
C4_RestartOnlyAfterDelay ==
    [][hist'.reset =>
          /\ game.gameOver \/ hist'.hits > 0
          /\ hist'.restartGiven
          /\ hist'.hitClock >= gameOverDelayDuration]_vars

\* A frame that restarted the game.
C4_Restarted ==
    hist.reset /\ hist.restartGiven /\ hist.hitClock >= gameOverDelayDuration

\* C5 as stated: after a frame that called Reset every mode flag is clear.
C5_ResetClearsEveryFlag ==
    hist.reset =>
        /\ ~game.firstTimeGameStart /\ ~game.paused /\ ~game.lostWindowFocus
        /\ ~exitWindowRequested /\ ~game.isInExitMenu /\ ~game.gameOver

\* C6: after a frame that called Reset score is 0, pipeSpeed is basePipeSpeed,
\* there is no obstacle and the player is at the start position with zero
\* velocity, and highScore is what it was before the frame.
C6_ResetRestoresRun ==
    [][hist'.reset =>
          /\ game'.score = 0
          /\ game'.pipeSpeed = basePipeSpeed
          /\ game'.pipes = <<>>
          /\ game'.playerY = playerStartY
          /\ game'.playerVelocity = 0
          /\ game'.highScore = game.highScore]_vars

\* A restart after a run that scored and raised the high score.
C6_RestartAfterScoring ==
    hist.reset /\ hist.maxScore > 0 /\ game.highScore > hist.loaded /\ game.score = 0

\* The obstacles of the list whose scored flag is set.
ScoredPipes(pipes) == Len(SelectSeq(pipes, LAMBDA pipe : pipe.scored))

\* C7: at every frame boundary score is the number of obstacles of the run
\* whose scored flag has been set, the disposed ones included, and a frame
\* that does not call Reset does not lower score.
C7_ScoreCountsScoredPipes ==
    [][/\ game'.score = ScoredPipes(game'.pipes) + hist'.goneScored
       /\ ~hist'.reset => game'.score >= game.score]_vars

\* A score of two or more with a scored obstacle disposed and a later
\* obstacle in the list.
C7_ScoredAndGone ==
    game.score >= 2 /\ hist.goneScored >= 1 /\ game.pipes # <<>>

\* The high score and its file agree with the scores reached.
HighScoreKept ==
    /\ game.highScore >= game.score
    /\ game.highScore = Max(hist.loaded, hist.maxScore)
    /\ game.highScore > hist.loaded =>
          highscoreFile.open /\ ParseDigits(highscoreFile.text) = game.highScore
    /\ LoadHighScore(highscoreFile) = game.highScore
    /\ ~highscoreFile.open => LoadHighScore(highscoreFile) = 0

GapOnScreen(gapCenter) ==
    2 * gapCenter - pipeGap >= 0 /\ 2 * gapCenter + pipeGap <= 2 * height

\* C9: every obstacle generated, the first of a run at the midpoint and each
\* later one drawn from the clamped range converted to integers, has its
\* opening on the screen.
C9_OpeningOnScreen ==
    /\ \A i \in 1..Len(game.pipes) : GapOnScreen(game.pipes[i].gapCenter)
    /\ \A i \in 1..Len(hist.gaps) : GapOnScreen(hist.gaps[i])

\* An obstacle drawn at the lower end of a range cut by the screen.
C9_DrawnAtClamp ==
    /\ Len(hist.gaps) = 2 /\ hist.prevPresent
    /\ 2 * (hist.gaps[1] - maxGapHeightDifference) < pipeGap
    /\ 2 * hist.gaps[2] = pipeGap

\* The gap centers of the last two obstacles spawned are close.
LastTwoGapsClose ==
    /\ hist.gaps[2] - hist.gaps[1] <= maxGapHeightDifference
    /\ hist.gaps[1] - hist.gaps[2] <= maxGapHeightDifference

C11_SpeedRamp ==
    [][/\ game'.pipeSpeed <= maxSpeed
       /\ IF hist'.reset THEN game'.pipeSpeed = basePipeSpeed
          ELSE IF hist'.running
               THEN /\ game'.pipeSpeed
                         = Min(game.pipeSpeed + pipeSpeedIncrease * hist'.dt, maxSpeed)
                    /\ game'.pipeSpeed >= game.pipeSpeed
          ELSE game'.pipeSpeed = game.pipeSpeed]_vars

\* A second running frame whose increase was cut to maxSpeed.
C11_CutToMaxSpeed ==
    hist.running /\ hist.frames = 2 /\ hist.dt = 2 /\ game.pipeSpeed = maxSpeed

\* C12: a call of Update with dt = 0 leaves the game, the exit request, the
\* exit flag and the high score file as they were, in every mode and with
\* every input.
C12_ZeroFrameChangesNothing ==
    [][input'.dt = 0 =>
          UNCHANGED <<game, exitWindowRequested, exitWindow, highscoreFile>>]_vars

\* A call with dt = 0 and the pause key pressed during play: not paused.
C12_ZeroFrameWithPauseKey ==
    /\ input.dt = 0 /\ input.keys = {"P"} /\ input.focused
    /\ hist.kind = "frame" /\ game.pipes # <<>>
    /\ ~game.paused /\ ~game.gameOver /\ ~game.firstTimeGameStart
    /\ ~game.lostWindowFocus /\ ~exitWindowRequested

\* C13 as stated: every frame with dt > 0 in which the music key is pressed
\* flips musicPlaying, in whatever mode.
C13_MusicToggleInAnyMode ==
    [][(input'.dt > 0 /\ "M" \in input'.keys)
          => game'.musicPlaying # game.musicPlaying]_vars

\* C14: musicManuallyDisabled implies not musicPlaying in every state, and
\* from a state with musicManuallyDisabled set musicPlaying becomes true only
\* in a running frame with the music key pressed, which clears
\* musicManuallyDisabled; a Reset, a collision or any other frame leaves the
\* music off.
C14_ManualMuteSticks ==
    [][/\ game'.musicManuallyDisabled => ~game'.musicPlaying
       /\ (game.musicManuallyDisabled /\ game'.musicPlaying) =>
             /\ "M" \in input'.keys /\ hist'.running
             /\ ~game'.musicManuallyDisabled]_vars

\* A Reset with the music switched off by the user.
C14_ResetWhileMuted ==
    hist.reset /\ game.musicManuallyDisabled /\ ~game.musicPlaying

\* C15 as stated: paused changes in a frame only if, in that frame, the exit
\* confirmation is not pending, the game is not over and the window has
\* focus.
C15_PauseOnlyWhenAllowed ==
    [][(input'.dt > 0 /\ game'.paused # game.paused) =>
          /\ ~exitWindowRequested'
          /\ ~game.gameOver
          /\ input'.focused]_vars

\* C16 as stated: exitWindow is set only in a frame that started with the
\* request pending and has Y pressed; a frame that starts with the request
\* pending and has N or Escape pressed clears the request and does not set
\* exitWindow; exitWindow, once set, stays set.
C16_ExitTwoStep ==
    [][/\ exitWindow => exitWindow'
       /\ input'.dt > 0 =>
            /\ exitWindow' => exitWindowRequested /\ "Y" \in input'.keys
            /\ (exitWindowRequested /\ ("N" \in input'.keys \/ "ESC" \in input'.keys))
                  => ~exitWindowRequested' /\ ~exitWindow']_vars

\* C16: exitWindow is set exactly in the frames that start with the request
\* pending and have Y pressed without a close request, whatever other key
\* is pressed with Y; a frame that starts with the request pending and has
\* N or Escape pressed, without Y and without a close request, clears the
\* request and does not set exitWindow; exitWindow, once set, stays set.
C16_ConfirmWinsOverDeny ==
    [][/\ exitWindow => exitWindow'
       /\ input'.dt > 0 =>
            /\ exitWindow' <=>
                  (exitWindowRequested /\ "Y" \in input'.keys /\ "CLOSE" \notin input'.keys)
            /\ (/\ exitWindowRequested
                /\ "N" \in input'.keys \/ "ESC" \in input'.keys
                /\ "Y" \notin input'.keys /\ "CLOSE" \notin input'.keys)
                  => ~exitWindowRequested' /\ ~exitWindow']_vars

\* The exit confirmed in a frame with Escape and Y pressed together.
C16_ConfirmedWithEscape ==
    exitWindow /\ exitWindowRequested /\ input.keys = {"ESC", "Y"}

\* C17: after every frame with dt > 0 lostWindowFocus is the negation of the
\* focus status sampled in that frame, in every mode and for every input.
C17_FocusLostIsSampled ==
    [][input'.dt > 0 => game'.lostWindowFocus = ~input'.focused]_vars

\* C18 as stated: a running frame with a flap ends with the velocity
\* jumpForce + gravity * dt whatever it was before, and a frame that does not
\* run leaves the player's velocity and position unchanged, with a flap input
\* as without (hist.flapInput is the flap input of a frame that runs or
\* resets; a frame that does neither is covered for every input).
C18_FlapOnlyWhenRunning ==
    [][/\ (hist'.kind = "frame" /\ hist'.running /\ hist'.flapInput)
            => game'.playerVelocity = jumpForce + gravity * hist'.dt
       /\ (hist'.kind = "frame" /\ ~hist'.running /\ (hist'.reset => hist'.flapInput))
            => UNCHANGED <<game.playerY, game.playerVelocity>>]_vars

\* C18: a running frame with a flap ends with the velocity
\* jumpForce + gravity * dt whatever it was before and has moved the player
\* by that velocity times dt; a running frame without one adds gravity * dt
\* to the velocity; a frame that neither runs nor restarts leaves the
\* player's velocity and position unchanged whatever its input; a frame that
\* restarts, whether its restart input is also a flap input (the mobile tap)
\* or not, puts the player at the start position with velocity 0.
C18_FlapOverridesVelocity ==
    [][hist'.kind = "frame" =>
        /\ (hist'.running /\ hist'.flapInput)
              => /\ game'.playerVelocity = jumpForce + gravity * hist'.dt
                 /\ game'.playerY = game.playerY + game'.playerVelocity * hist'.dt
        /\ (hist'.running /\ ~hist'.flapInput)
              => game'.playerVelocity = game.playerVelocity + gravity * hist'.dt
        /\ (~hist'.running /\ ~hist'.reset)
              => UNCHANGED <<game.playerY, game.playerVelocity>>
        /\ hist'.reset
              => game'.playerY = playerStartY /\ game'.playerVelocity = 0]_vars

\* A flap in the second frame of a run, after a frame of free fall.
C18_FlapWhileFalling ==
    /\ hist.running /\ hist.flapInput /\ hist.frames = 2
    /\ game.playerVelocity = jumpForce + gravity * hist.dt
    /\ game.playerY > playerStartY

\* The player's collision box at the end of a frame, in half pixels: the
\* rectangle of playerSize scaled by the two ratios, centered on the player.
BoxLeft2 == 2 * playerX - (playerSize * playerCollisionWidthRatioPct) \div 100
BoxRight2 == 2 * playerX + (playerSize * playerCollisionWidthRatioPct) \div 100
BoxTop2 == 2 * game.playerY - (playerSize * playerCollisionHeightRatioPct) \div 100
BoxBottom2 == 2 * game.playerY + (playerSize * playerCollisionHeightRatioPct) \div 100

BoxOutOfScreen == BoxTop2 < 0 \/ BoxBottom2 > 2 * height

\* The active obstacles the box overlaps horizontally, and those of them
\* whose gap does not contain the box's vertical extent.
OverlappedPipes ==
    {i \in 1..Len(game.pipes) :
        BoxRight2 > 2 * game.pipes[i].x /\ BoxLeft2 < 2 * (game.pipes[i].x + pipeWidth)}
HitPipes ==
    {i \in OverlappedPipes :
        ~(/\ 2 * game.pipes[i].gapCenter - pipeGap <= BoxTop2
          /\ BoxBottom2 <= 2 * game.pipes[i].gapCenter + pipeGap)}

\* C19: a running frame ends in game-over if and only if, at the positions
\* reached in that frame, the collision box is out of the screen at the top
\* or at the bottom, or some active obstacle is overlapped horizontally by
\* the box and its gap does not contain the box's vertical extent.
C19_GameOverIffCollision ==
    [][(hist'.kind = "frame" /\ hist'.running) =>
          (game'.gameOver <=> (BoxOutOfScreen' \/ HitPipes' # {}))]_vars

\* A run ended by an obstacle alone, with the box inside the screen.
C19_HitObstacleInsideScreen ==
    /\ hist.running /\ game.gameOver
    /\ ~BoxOutOfScreen /\ HitPipes # {}

\* C20: the game-over transition fires at most once in a frame, also when the
\* boundary and obstacles are hit together: it fires only in a frame that
\* started without game-over, sets game-over and arms the delay timer with
\* gameOverDelayDuration (less the dt of that frame, which the same Update
\* already counts down); and from a state with game-over set, a frame
\* without Reset keeps game-over set, fires no transition and does not raise
\* the delay timer.
C20_CollisionOnce ==
    [][hist'.kind = "frame" =>
        /\ hist'.hits <= 1
        /\ hist'.hits = 1 =>
              /\ ~game.gameOver /\ game'.gameOver /\ hist'.running
              /\ game'.gameOverDelayTimer = Max(gameOverDelayDuration - hist'.dt, 0)
        /\ (~game.gameOver /\ game'.gameOver) => hist'.hits = 1
        /\ (game.gameOver /\ ~hist'.reset) =>
              /\ game'.gameOver
              /\ hist'.hits = 0
              /\ game'.gameOverDelayTimer <= game.gameOverDelayTimer]_vars

\* One transition in a frame where the box is out of the screen and also
\* hits an obstacle.
C20_BoundaryAndObstacleTogether ==
    /\ hist.running /\ game.gameOver /\ hist.hits = 1
    /\ BoxOutOfScreen /\ HitPipes # {}

\* C21 as stated: every two obstacles spawned one after the other in a run
\* are initialPipeDistance apart.  Obstacles move together, so the distance
\* of two neighbours of the active sequence is their distance at the spawn
\* of the later one.
C21_SpawnDistanceConstant ==
    \A i \in 1..(Len(game.pipes) - 1) :
        game.pipes[i + 1].x - game.pipes[i].x = initialPipeDistance

\* The active sequence is strictly increasing in x from front to back.
IncreasingX(pipes) ==
    \A i \in 1..Len(pipes), j \in 1..Len(pipes) : i < j => pipes[i].x < pipes[j].x

\* C22: at every frame boundary the active sequence is strictly increasing in
\* x from front to back, the obstacle spawned in a frame is its last element,
\* and the obstacles that were listed before a running frame and are listed
\* after it are a suffix of the earlier sequence, each moved left by
\* pipeSpeed * dt: disposal removes from the front only.
C22_SpawnOrderIsPositionOrder ==
    [][/\ IncreasingX(game'.pipes)
       /\ (hist'.kind = "frame" /\ hist'.running) =>
            LET spawned == IF game'.pipeSpawnTimer = 0 THEN 1 ELSE 0
                kept == Len(game'.pipes) - spawned
                dropped == Len(game.pipes) - kept
            IN  /\ kept >= 0 /\ dropped >= 0
                /\ \A i \in 1..kept :
                      /\ game'.pipes[i].x
                           = game.pipes[dropped + i].x - game'.pipeSpeed * hist'.dt
                      /\ game'.pipes[i].gapCenter = game.pipes[dropped + i].gapCenter
                /\ \A i \in 1..dropped :
                      game.pipes[i].x - game'.pipeSpeed * hist'.dt < -pipeWidth
                /\ spawned = 1 =>
                      game'.pipes[Len(game'.pipes)].x = width - game'.pipeSpeed * hist'.dt]_vars

\* A frame without a spawn that disposed of the front obstacle and kept a
\* later one.
C22_FrontDisposedLaterKept ==
    /\ hist.running /\ hist.disposed >= 1
    /\ game.pipeSpawnTimer > 0 /\ game.pipes # <<>>

\* C23: after every running frame no active obstacle has x + pipeWidth < 0;
\* the obstacles the frame disposed of are those whose x + pipeWidth, after
\* the move of the frame, is negative; and each of them has been counted in
\* the score: the number disposed of is the growth of the number of scored
\* obstacles no longer listed, and the score stays the number of scored
\* obstacles listed or disposed of.
C23_DisposedLeftOfScreenAndScored ==
    [][(hist'.kind = "frame" /\ hist'.running) =>
          LET spawned == IF game'.pipeSpawnTimer = 0 THEN 1 ELSE 0
              movedOut == {i \in 1..Len(game.pipes) :
                             game.pipes[i].x - game'.pipeSpeed * hist'.dt + pipeWidth < 0}
          IN  /\ \A i \in 1..Len(game'.pipes) : game'.pipes[i].x + pipeWidth >= 0
              /\ hist'.disposed = Cardinality(movedOut)
              /\ Len(game'.pipes) = Len(game.pipes) + spawned - hist'.disposed
              /\ hist'.goneScored = hist.goneScored + hist'.disposed
              /\ game'.score = ScoredPipes(game'.pipes) + hist'.goneScored]_vars

\* A frame that disposed of two obstacles at once, both counted in the score.
C23_TwoDisposedAndCounted ==
    /\ hist.running /\ hist.disposed >= 2
    /\ hist.goneScored >= 2 /\ game.score >= 2

\* C24: the delay timer is never negative; every frame with dt > 0 that
\* starts in game-over counts it down by dt, stopping at exactly zero,
\* whatever the focus and whether or not an exit prompt is pending; such a
\* frame performs Reset and leaves game-over exactly when the timer has
\* reached zero in it or before and the frame carries the restart action;
\* and while frames with dt > 0 keep being processed, a game that is over
\* comes to a timer of zero unless the exit is confirmed first.
C24_DelayElapsesThenRestart ==
    /\ [][/\ game'.gameOverDelayTimer >= 0
          /\ (game.gameOver /\ input'.dt > 0) =>
                LET t == Max(game.gameOverDelayTimer - input'.dt, 0)
                IN  /\ game'.gameOverDelayTimer = t
                    /\ IF t = 0 /\ RestartInput(input'.keys)
                       THEN hist'.reset /\ ~game'.gameOver
                       ELSE ~hist'.reset /\ game'.gameOver]_vars
    /\ game.gameOver ~> (game.gameOverDelayTimer = 0 \/ exitWindow)

\* A restart performed in a frame without focus while the exit prompt is
\* pending.
C24_RestartWithoutFocusAtPrompt ==
    /\ hist.reset /\ ~game.gameOver
    /\ input.dt > 0 /\ RestartInput(input.keys)
    /\ ~input.focused /\ exitWindowRequested

====
